---- MODULE Spec2Model ----
(***************************************************************************)
(* Model of OWASP_scanning/quick_scan.py: check_headers_and_config(url).   *)
(* One run of the function is a linear pass: primary GET, four report      *)
(* sections, an optional plain-HTTP redirect probe, the write of the       *)
(* report file and a console notice.  Strings are TLA+ strings, built with *)
(* \o exactly as the f-strings of the source build them.                   *)
(***************************************************************************)
EXTENDS Integers, Sequences, FiniteSets, TLC

(***************************************************************************)
(* Bounds of the model.                                                    *)
(***************************************************************************)
\* Longest cookie jar a response carries.
MaxCookies == 2
\* A response carries at most MaxDiff of the observed headers, or all but at
\* most MaxDiff of them.
MaxDiff == 1

(***************************************************************************)
(* String functions of the Python runtime used by the source.              *)
(***************************************************************************)
\* str.startswith
StartsWith(s, p) == Len(s) >= Len(p) /\ SubSeq(s, 1, Len(p)) = p

\* str.replace(old, new): every non-overlapping occurrence, left to right
RECURSIVE Replace(_, _, _)
Replace(s, old, new) ==
    IF Len(s) < Len(old) THEN s
    ELSE IF SubSeq(s, 1, Len(old)) = old
         THEN new \o Replace(SubSeq(s, Len(old) + 1, Len(s)), old, new)
         ELSE SubSeq(s, 1, 1) \o Replace(SubSeq(s, 2, Len(s)), old, new)

\* sep.join(lines)
RECURSIVE Join(_, _)
Join(lines, sep) ==
    IF Len(lines) = 0 THEN ""
    ELSE IF Len(lines) = 1 THEN lines[1]
    ELSE lines[1] \o sep \o Join(Tail(lines), sep)

\* str(int), as an f-string placeholder renders a status code
Str(n) == ToString(n)

LowerTable ==
    ("A" :> "a") @@ ("B" :> "b") @@ ("C" :> "c") @@ ("D" :> "d") @@
    ("E" :> "e") @@ ("F" :> "f") @@ ("G" :> "g") @@ ("H" :> "h") @@
    ("I" :> "i") @@ ("J" :> "j") @@ ("K" :> "k") @@ ("L" :> "l") @@
    ("M" :> "m") @@ ("N" :> "n") @@ ("O" :> "o") @@ ("P" :> "p") @@
    ("Q" :> "q") @@ ("R" :> "r") @@ ("S" :> "s") @@ ("T" :> "t") @@
    ("U" :> "u") @@ ("V" :> "v") @@ ("W" :> "w") @@ ("X" :> "x") @@
    ("Y" :> "y") @@ ("Z" :> "z")

\* str.lower, the key normalisation of the case-insensitive header mapping
RECURSIVE Lower(_)
Lower(s) ==
    IF Len(s) = 0 THEN ""
    ELSE LET c == SubSeq(s, 1, 1)
         IN  (IF c \in DOMAIN LowerTable THEN LowerTable[c] ELSE c)
             \o Lower(SubSeq(s, 2, Len(s)))

\* `name in headers` on response.headers (keys compared case-insensitively)
HeaderIn(headers, name) ==
    \E k \in DOMAIN headers : Lower(k) = Lower(name)

\* headers[name]
HeaderGet(headers, name) ==
    headers[CHOOSE k \in DOMAIN headers : Lower(k) = Lower(name)]

\* headers.get(name, default)
HeaderGetDefault(headers, name, default) ==
    IF HeaderIn(headers, name) THEN HeaderGet(headers, name) ELSE default

(***************************************************************************)
(* Program constants.                                                      *)
(***************************************************************************)
TARGET_URL == "https://myfiles1.thepihouse.my.id/"

REPORT_PATH == "OWASP_scanning/quick_report.md"

PRIMARY_TIMEOUT == 10

PROBE_TIMEOUT == 5

\* the dict security_headers, in insertion order
security_headers ==
    << [header |-> "Strict-Transport-Security",
        advice |-> "Missing (HSTS ensures HTTPS usage)"],
       [header |-> "Content-Security-Policy",
        advice |-> "Missing (Mitigates XSS)"],
       [header |-> "X-Frame-Options",
        advice |-> "Missing (Prevents Clickjacking)"],
       [header |-> "X-Content-Type-Options",
        advice |-> "Missing (Prevents MIME sniffing)"],
       [header |-> "Referrer-Policy",
        advice |-> "Missing (Controls referrer information)"],
       [header |-> "Permissions-Policy",
        advice |-> "Missing (Controls browser features)"] >>

REDIRECT_STATUSES == {301, 302, 307, 308}

(***************************************************************************)
(* The environment: targets, responses, failures.                          *)
(***************************************************************************)
\* Targets: the configured one, its plain-HTTP form, and an https target whose
\* query carries another https URL.
Urls ==
    { TARGET_URL,
      "http://myfiles1.thepihouse.my.id/",
      TARGET_URL \o "?next=https://login.example/" }

\* Headers a server may send, with the value it sends for each.
ServerValue ==
    ("Strict-Transport-Security" :> "max-age=31536000; includeSubDomains") @@
    ("Content-Security-Policy" :> "default-src 'self'") @@
    ("X-Frame-Options" :> "DENY") @@
    ("X-Content-Type-Options" :> "nosniff") @@
    ("Referrer-Policy" :> "no-referrer") @@
    ("Permissions-Policy" :> "geolocation=()") @@
    ("Server" :> "nginx/1.18.0 (Ubuntu)") @@
    ("X-Powered-By" :> "PHP/8.1.2")

ObservedNames == DOMAIN ServerValue

\* Which of the observed headers a response carries.
HeaderSets ==
    { S \in SUBSET ObservedNames :
        \/ Cardinality(S) <= MaxDiff
        \/ Cardinality(ObservedNames \ S) <= MaxDiff }

\* The header mapping of a response that sends the names of S, spelled as in
\* the table or all in lower case.
HeadersOf(S, lower) ==
    IF lower
    THEN [k \in {Lower(n) : n \in S} |->
              ServerValue[CHOOSE n \in S : Lower(n) = k]]
    ELSE [k \in S |-> ServerValue[k]]

HeaderMaps == { HeadersOf(S, l) : S \in HeaderSets, l \in BOOLEAN }

CookieNames == << "sessionid", "csrftoken", "lang" >>

\* Cookie jars: up to MaxCookies cookies in receipt order, each with or
\* without the Secure flag.
CookieJars ==
    UNION { { [i \in 1..n |-> [name |-> CookieNames[i], secure |-> f[i]]] :
                f \in [1..n -> BOOLEAN] } : n \in 0..MaxCookies }

FetchErrors == { "Connection refused", "certificate verify failed" }

ProbeErrors == { "Read timed out" }

ProbeStatuses == { 200, 301, 302, 307, 308 }

NoHeaders == [k \in {} |-> ""]

ProbeHeaderMaps ==
    { NoHeaders,
      "Location" :> "https://myfiles1.thepihouse.my.id/",
      "location" :> "https://myfiles1.thepihouse.my.id/",
      "Location" :> "http://myfiles1.thepihouse.my.id/login" }

OpenErrors == { "[Errno 13] Permission denied: 'OWASP_scanning/quick_report.md'" }

WriteErrors == { "'charmap' codec can't encode character" }

\* What the report file holds before the run: the report of an earlier run.

PriorFiles == { [exists |-> TRUE, content |-> "# OWASP Quick Scan Report\nTarget: old"] }

NoResponse == [ok |-> FALSE, headers |-> NoHeaders, cookies |-> << >>]

NoProbe == [kind |-> "none", status_code |-> 0, headers |-> NoHeaders, e |-> ""]

(***************************************************************************)
(* State.                                                                  *)
(***************************************************************************)
VARIABLES
    pc,         \* position of the run in check_headers_and_config
    url,        \* the argument
    response,   \* result of the primary GET
    report,     \* the list `report`
    http_url,   \* the URL derived for the redirect probe
    r_http,     \* outcome of the redirect probe (response or exception)
    net,        \* the GET requests issued so far, in order
    file,       \* the file OWASP_scanning/quick_report.md
    file0,      \* what the file held when the run started
    out         \* lines printed on stdout

vars == << pc, url, response, report, http_url, r_http, net, file, file0, out >>

Init ==
    /\ pc = "start"
    /\ url \in Urls
    /\ response = NoResponse
    /\ report = << >>
    /\ http_url = ""
    /\ r_http = NoProbe
    /\ net = << >>
    /\ file0 \in PriorFiles
    /\ file = file0
    /\ out = << >>

(***************************************************************************)
(* Report lines, as the source formats them.                               *)
(***************************************************************************)
ReportPreamble(u) == << "# OWASP Quick Scan Report", "Target: " \o u, "" >>

H_HEADERS == "## Security Headers Analysis"

H_INFO == "\n## Information Disclosure"

H_COOKIES == "\n## Cookie Security"

H_TRANSPORT == "\n## Transport Security"

HeaderOkLine(header, value) == "- [OK] " \o header \o ": " \o value

HeaderFailLine(header, advice) == "- [FAIL] " \o header \o ": " \o advice

\* Faulty variant: the header is looked up under the exact spelling of the table.
SecurityHeaderLineExactCase(headers, entry) ==
    IF entry.header \in DOMAIN headers
    THEN HeaderOkLine(entry.header, headers[entry.header])
    ELSE HeaderFailLine(entry.header, entry.advice)

\* one iteration of the loop over security_headers.items()
SecurityHeaderLine(headers, entry) ==
    IF HeaderIn(headers, entry.header)
    THEN HeaderOkLine(entry.header, HeaderGet(headers, entry.header))
    ELSE HeaderFailLine(entry.header, entry.advice)

SecurityHeaderLines(headers) ==
    [i \in 1..Len(security_headers) |->
        SecurityHeaderLine(headers, security_headers[i])]

ServerWarnLine(value) ==
    "- [WARN] Server Header Present: " \o value \o " (Reveal potential tech stack)"

PoweredByWarnLine(value) == "- [WARN] X-Powered-By Header Present: " \o value

\* Faulty variant: the X-Powered-By check runs before the Server check.
InfoDisclosureLinesSwapped(headers) ==
    (IF HeaderIn(headers, "X-Powered-By")
     THEN << PoweredByWarnLine(HeaderGet(headers, "X-Powered-By")) >> ELSE << >>)
    \o
    (IF HeaderIn(headers, "Server")
     THEN << ServerWarnLine(HeaderGet(headers, "Server")) >> ELSE << >>)

InfoDisclosureLines(headers) ==
    (IF HeaderIn(headers, "Server")
     THEN << ServerWarnLine(HeaderGet(headers, "Server")) >> ELSE << >>)
    \o
    (IF HeaderIn(headers, "X-Powered-By")
     THEN << PoweredByWarnLine(HeaderGet(headers, "X-Powered-By")) >> ELSE << >>)

CookieNameLine(name) == "- Cookie: " \o name

COOKIE_FAIL_LINE == "  - [FAIL] Missing 'Secure' flag"

NO_COOKIES_LINE == "- No cookies found"

\* Faulty variant: the FAIL line is emitted for the cookies that carry Secure.
CookieLineFlagInverted(cookie) ==
    << CookieNameLine(cookie.name) >>
    \o (IF cookie.secure THEN << COOKIE_FAIL_LINE >> ELSE << >>)

\* body of the loop over response.cookies
CookieLine(cookie) ==
    << CookieNameLine(cookie.name) >>
    \o (IF ~cookie.secure THEN << COOKIE_FAIL_LINE >> ELSE << >>)

RECURSIVE CookieLoop(_)
CookieLoop(cookies) ==
    IF Len(cookies) = 0 THEN << >>
    ELSE CookieLine(Head(cookies)) \o CookieLoop(Tail(cookies))

CookieLines(cookies) ==
    IF Len(cookies) > 0 THEN CookieLoop(cookies) ELSE << NO_COOKIES_LINE >>

USING_HTTPS_LINE == "- [OK] Using HTTPS"

REDIRECT_OK_LINE == "- [OK] HTTP redirects to HTTPS"

\* line 66 is a plain string literal, not an f-string: the placeholder text is
\* emitted as written and the status code is not interpolated
RedirectFailLine(status_code) ==
    "- [FAIL] HTTP does not redirect to HTTPS (Status: {r_http.status_code})"

ProbeWarnLine(e) == "- [WARN] HTTP check failed: " \o e

\* Faulty variant: the scheme test accepts plain http as well.
UsesHttp(u) == StartsWith(u, "http")

UsesHttps(u) == StartsWith(u, "https")

HttpUrl(u) == Replace(u, "https://", "http://")

\* Faulty variant: the Location header is not looked at.
RedirectsStatusOnly(r) == r.status_code \in REDIRECT_STATUSES

Redirects(r) ==
    /\ r.status_code \in REDIRECT_STATUSES
    /\ StartsWith(HeaderGetDefault(r.headers, "Location", ""), "https")

RedirectLine(r) ==
    IF Redirects(r) THEN REDIRECT_OK_LINE ELSE RedirectFailLine(r.status_code)

ScanningNotice(u) == "Scanning " \o u \o "..."

COMPLETION_NOTICE ==
    "Quick scan completed. Report saved to OWASP_scanning/quick_report.md"

ErrorNotice(e) == "Error during scan: " \o e

(***************************************************************************)
(* Steps of check_headers_and_config.                                      *)
(***************************************************************************)
\* the outer `except Exception as e` handler
Abort(e) ==
    /\ out' = Append(out, ErrorNotice(e))
    /\ pc' = "failed"

PrimaryRequest ==
    [url |-> url, verify |-> TRUE, allow_redirects |-> TRUE,
     timeout |-> PRIMARY_TIMEOUT]

ProbeRequest(u) ==
    [url |-> u, verify |-> TRUE, allow_redirects |-> FALSE,
     timeout |-> PROBE_TIMEOUT]

Start ==
    /\ pc = "start"
    /\ out' = Append(out, ScanningNotice(url))
    /\ pc' = "fetch"
    /\ UNCHANGED << url, response, report, http_url, r_http, net, file, file0 >>

FetchOk ==
    /\ pc = "fetch"
    /\ \E h \in HeaderMaps, c \in CookieJars :
          response' = [ok |-> TRUE, headers |-> h, cookies |-> c]
    /\ net' = Append(net, PrimaryRequest)
    /\ report' = ReportPreamble(url)
    /\ pc' = "headers"
    /\ UNCHANGED << url, http_url, r_http, file, file0, out >>

FetchFail ==
    /\ pc = "fetch"
    /\ net' = Append(net, PrimaryRequest)
    /\ \E e \in FetchErrors : Abort(e)
    /\ UNCHANGED << url, response, report, http_url, r_http, file, file0 >>

CheckSecurityHeaders ==
    /\ pc = "headers"
    /\ report' = (report \o << H_HEADERS >>) \o SecurityHeaderLines(response.headers)
    /\ pc' = "info"
    /\ UNCHANGED << url, response, http_url, r_http, net, file, file0, out >>

CheckInfoDisclosure ==
    /\ pc = "info"
    /\ report' = (report \o << H_INFO >>) \o InfoDisclosureLines(response.headers)
    /\ pc' = "cookies"
    /\ UNCHANGED << url, response, http_url, r_http, net, file, file0, out >>

CheckCookies ==
    /\ pc = "cookies"
    /\ report' = (report \o << H_COOKIES >>) \o CookieLines(response.cookies)
    /\ pc' = "transport"
    /\ UNCHANGED << url, response, http_url, r_http, net, file, file0, out >>

CheckTransport ==
    /\ pc = "transport"
    /\ IF UsesHttps(url)
       THEN /\ report' = report \o << H_TRANSPORT, USING_HTTPS_LINE >>
            /\ http_url' = HttpUrl(url)
            /\ pc' = "probe"
       ELSE /\ report' = Append(report, H_TRANSPORT)
            /\ http_url' = http_url
            /\ pc' = "open"
    /\ UNCHANGED << url, response, r_http, net, file, file0, out >>

ProbeResponse ==
    /\ pc = "probe"
    /\ net' = Append(net, ProbeRequest(http_url))
    /\ \E s \in ProbeStatuses, h \in ProbeHeaderMaps :
          r_http' = [kind |-> "response", status_code |-> s, headers |-> h, e |-> ""]
    /\ report' = Append(report, RedirectLine(r_http'))
    /\ pc' = "open"
    /\ UNCHANGED << url, response, http_url, file, file0, out >>

\* Faulty variant: no local handler around the probe; its failure reaches the outer
\* handler.
ProbeFailAborts ==
    /\ pc = "probe"
    /\ net' = Append(net, ProbeRequest(http_url))
    /\ \E e \in ProbeErrors :
          /\ r_http' = [kind |-> "error", status_code |-> 0, headers |-> NoHeaders, e |-> e]
          /\ Abort(e)
    /\ UNCHANGED << url, response, report, http_url, file, file0 >>

ProbeFail ==
    /\ pc = "probe"
    /\ net' = Append(net, ProbeRequest(http_url))
    /\ \E e \in ProbeErrors :
          r_http' = [kind |-> "error", status_code |-> 0, headers |-> NoHeaders, e |-> e]
    /\ report' = Append(report, ProbeWarnLine(r_http'.e))
    /\ pc' = "open"
    /\ UNCHANGED << url, response, http_url, file, file0, out >>

\* Faulty variant: the report file is opened before the probe has been made.
OpenBeforeProbe ==
    /\ pc \in {"probe", "open"}
    /\ file' = [exists |-> TRUE, content |-> ""]
    /\ pc' = "write"
    /\ UNCHANGED << url, response, report, http_url, r_http, net, file0, out >>

\* open(REPORT_PATH, "w") creates or truncates the file
OpenOk ==
    /\ pc = "open"
    /\ file' = [exists |-> TRUE, content |-> ""]
    /\ pc' = "write"
    /\ UNCHANGED << url, response, report, http_url, r_http, net, file0, out >>

OpenFail ==
    /\ pc = "open"
    /\ \E e \in OpenErrors : Abort(e)
    /\ UNCHANGED << url, response, report, http_url, r_http, net, file, file0 >>

WriteOk ==
    /\ pc = "write"
    /\ file' = [exists |-> TRUE, content |-> Join(report, "\n")]
    /\ pc' = "print"
    /\ UNCHANGED << url, response, report, http_url, r_http, net, file0, out >>

\* f.write raises (the text cannot be encoded; the device is full): the
\* with-block closes the truncated file and the outer handler runs
WriteFail ==
    /\ pc = "write"
    /\ \E e \in WriteErrors : Abort(e)
    /\ UNCHANGED << url, response, report, http_url, r_http, net, file, file0 >>

PrintCompletion ==
    /\ pc = "print"
    /\ out' = Append(out, COMPLETION_NOTICE)
    /\ pc' = "done"
    /\ UNCHANGED << url, response, report, http_url, r_http, net, file, file0 >>

Next ==
    \/ Start
    \/ FetchOk
    \/ FetchFail
    \/ CheckSecurityHeaders
    \/ CheckInfoDisclosure
    \/ CheckCookies
    \/ CheckTransport
    \/ ProbeResponse
    \/ ProbeFail
    \/ OpenOk
    \/ OpenFail
    \/ WriteOk
    \/ WriteFail
    \/ PrintCompletion

Spec == Init /\ [][Next]_vars

(***************************************************************************)
(* Reading a report: sections and finding lines.                           *)
(***************************************************************************)
EndsWith(s, p) == Len(s) >= Len(p) /\ SubSeq(s, Len(s) - Len(p) + 1, Len(s)) = p

Contains(s, sub) ==
    \E i \in 1..(Len(s) - Len(sub) + 1) : SubSeq(s, i, i + Len(sub) - 1) = sub

SectionHeaders == { H_HEADERS, H_INFO, H_COOKIES, H_TRANSPORT }

HasLine(r, l) == \E i \in 1..Len(r) : r[i] = l

IndexOf(r, l) == CHOOSE i \in 1..Len(r) : r[i] = l

\* The lines of r after the section header h, up to the next section header.
Section(r, h) ==
    LET i == IndexOf(r, h)
        later == { j \in (i + 1)..Len(r) : r[j] \in SectionHeaders }
        last == IF later = {} THEN Len(r)
                ELSE (CHOOSE j \in later : \A k \in later : j <= k) - 1
    IN  SubSeq(r, i + 1, last)

IsOk(l) == StartsWith(l, "- [OK] ")

IsWarn(l) == StartsWith(l, "- [WARN] ")

IsFail(l) == StartsWith(l, "- [FAIL] ")

IsFinding(l) == Contains(l, "[OK]") \/ Contains(l, "[WARN]") \/ Contains(l, "[FAIL]")

\* The spellings under which a server sends the header h.
Spellings == [h \in ObservedNames |-> { h, Lower(h) }]

\* The response carries header h (whatever the spelling of its name).
Received(h) == \E k \in DOMAIN response.headers : k \in Spellings[h]

ReceivedValue(h) ==
    response.headers[CHOOSE k \in DOMAIN response.headers : k \in Spellings[h]]

TrackedHeaders ==
    << "Strict-Transport-Security", "Content-Security-Policy", "X-Frame-Options",
       "X-Content-Type-Options", "Referrer-Policy", "Permissions-Policy" >>

HttpsTarget == SubSeq(url, 1, 8) = "https://"

\* The redirect condition of the probe response.
RedirectCondition ==
    /\ r_http.status_code \in {301, 302, 307, 308}
    /\ \E k \in DOMAIN r_http.headers :
          Lower(k) = "location" /\ StartsWith(r_http.headers[k], "https")

\* All four sections are assembled and the probe, if any, has finished.
Assembled == HasLine(report, H_TRANSPORT) /\ pc # "probe"

Written == pc \in {"print", "done"}

LastOut == out[Len(out)]

(***************************************************************************)
(* Security Headers Analysis.                                              *)
(***************************************************************************)
\* C2: once the Security Headers Analysis section is complete it holds exactly
\* six finding lines, the i-th for the i-th tracked header of the fixed table
\* order: an OK line ending in the value exactly as received when the response
\* carries the header, a FAIL line ending in the header's advisory message
\* otherwise.
InvC2 ==
    HasLine(report, H_INFO) =>
        LET sec == Section(report, H_HEADERS)
        IN  /\ Len(sec) = 6
            /\ \A i \in 1..6 :
                  LET h == TrackedHeaders[i]
                  IN  IF Received(h)
                      THEN /\ StartsWith(sec[i], "- [OK] " \o h \o ":")
                           /\ EndsWith(sec[i], ": " \o ReceivedValue(h))
                      ELSE /\ StartsWith(sec[i], "- [FAIL] " \o h \o ":")
                           /\ EndsWith(sec[i], ": " \o security_headers[i].advice)
            /\ (\A i \in 1..6 : ~Received(TrackedHeaders[i])) =>
                  \A i \in 1..6 : IsFail(sec[i])

\* A finished report for a response that carries one tracked header under a
\* lower-case name and misses another.
WitC2 ==
    /\ pc = "done"
    /\ \E i \in 1..6 :
          /\ Received(TrackedHeaders[i])
          /\ TrackedHeaders[i] \notin DOMAIN response.headers
    /\ \E i \in 1..6 : ~Received(TrackedHeaders[i])

(***************************************************************************)
(* Information Disclosure.                                                 *)
(***************************************************************************)
\* C9: once the Information Disclosure section is complete it holds a WARN
\* line with the Server value iff the response carries Server, and a WARN line
\* with the X-Powered-By value iff it carries X-Powered-By, Server first, and
\* no other line.
InvC9 ==
    HasLine(report, H_COOKIES) =>
        LET sec == Section(report, H_INFO)
            s == Received("Server")
            p == Received("X-Powered-By")
        IN  /\ Len(sec) = (IF s THEN 1 ELSE 0) + (IF p THEN 1 ELSE 0)
            /\ s => /\ IsWarn(sec[1])
                    /\ Contains(sec[1], "Server")
                    /\ Contains(sec[1], ReceivedValue("Server"))
            /\ p => /\ IsWarn(sec[Len(sec)])
                    /\ Contains(sec[Len(sec)], "X-Powered-By")
                    /\ Contains(sec[Len(sec)], ReceivedValue("X-Powered-By"))

\* A finished report for a response that carries Server and X-Powered-By.
WitC9 ==
    /\ pc = "done"
    /\ Received("Server")
    /\ Received("X-Powered-By")
    /\ Len(Section(report, H_INFO)) = 2

(***************************************************************************)
(* Cookie Security.                                                        *)
(***************************************************************************)
IsCookieNameLine(l) == StartsWith(l, "- Cookie: ")

IsCookieFailLine(l) == Contains(l, "[FAIL]")

NameLinesBefore(sec, j) == { k \in 1..(j - 1) : IsCookieNameLine(sec[k]) }

\* C6: once the Cookie Security section is complete, for N cookies of which M
\* lack Secure it holds the N cookie-name lines in receipt order and M FAIL
\* lines, each FAIL line right after the name line of a cookie without
\* Secure, and nothing else; for N = 0 it is the single line saying that no
\* cookies were found.
InvC6 ==
    HasLine(report, H_TRANSPORT) =>
        LET sec == Section(report, H_COOKIES)
            c == response.cookies
            N == Len(c)
            M == Cardinality({ i \in 1..N : ~c[i].secure })
            names == SelectSeq(sec, IsCookieNameLine)
            fails == { j \in 1..Len(sec) : IsCookieFailLine(sec[j]) }
        IN  IF N = 0
            THEN /\ Len(sec) = 1
                 /\ Contains(sec[1], "No cookies found")
                 /\ fails = {}
            ELSE /\ Len(names) = N
                 /\ \A i \in 1..N : names[i] = "- Cookie: " \o c[i].name
                 /\ Cardinality(fails) = M
                 /\ Len(sec) = N + M
                 /\ \A j \in fails :
                       /\ j > 1
                       /\ IsCookieNameLine(sec[j - 1])
                       /\ ~c[Cardinality(NameLinesBefore(sec, j))].secure

\* A finished report for two cookies of which exactly the second lacks Secure.
WitC6 ==
    /\ pc = "done"
    /\ Len(response.cookies) = 2
    /\ response.cookies[1].secure
    /\ ~response.cookies[2].secure

(***************************************************************************)
(* Transport Security.                                                     *)
(***************************************************************************)
\* C4: for an https target whose probe returned a response, the Transport
\* Security section is the Using HTTPS line followed by one redirect finding,
\* which is the OK line iff the redirect condition holds and a FAIL line
\* otherwise.
InvC4 ==
    (Assembled /\ HttpsTarget /\ r_http.kind = "response") =>
        LET sec == Section(report, H_TRANSPORT)
        IN  /\ Len(sec) = 2
            /\ sec[1] = "- [OK] Using HTTPS"
            /\ (sec[2] = "- [OK] HTTP redirects to HTTPS") <=> RedirectCondition
            /\ ~RedirectCondition => IsFail(sec[2])

\* A finished report whose probe returned a redirect status without Location.
WitC4 ==
    /\ pc = "done"
    /\ r_http.kind = "response"
    /\ r_http.status_code = 308
    /\ DOMAIN r_http.headers = {}

\* C3: for an https target whose probe response does not satisfy the redirect
\* condition, the FAIL line of the Transport Security section contains the
\* status code of the probe response.
InvC3 ==
    (Assembled /\ HttpsTarget /\ r_http.kind = "response" /\ ~RedirectCondition) =>
        LET sec == Section(report, H_TRANSPORT)
        IN  /\ IsFail(sec[Len(sec)])
            /\ Contains(sec[Len(sec)], Str(r_http.status_code))

\* C7: the URL the probe requests is the target with the scheme https replaced
\* by http and everything after the scheme unchanged.
InvC7 ==
    (HttpsTarget /\ Len(net) = 2) =>
        net[2].url = "http://" \o SubSeq(url, 9, Len(url))

\* C8: for an http target no probe request is ever issued, the Transport
\* Security section of the report holds no line, and the written file ends
\* with the Transport Security header and holds no Using HTTPS line.
InvC8 ==
    ~HttpsTarget =>
        /\ Len(net) <= 1
        /\ r_http.kind = "none"
        /\ HasLine(report, H_TRANSPORT) => Section(report, H_TRANSPORT) = << >>
        /\ Written =>
              /\ file.exists
              /\ EndsWith(file.content, "## Transport Security")
              /\ ~Contains(file.content, "Using HTTPS")

\* A written report for an http target.
WitC8 ==
    /\ pc = "done"
    /\ ~HttpsTarget
    /\ file.content = Join(report, "\n")
    /\ Len(net) = 1

(***************************************************************************)
(* Failure handling and the order of the steps.                            *)
(***************************************************************************)
IsErrorNotice(l) == StartsWith(l, "Error during scan: ")

CompletionPrinted == HasLine(out, COMPLETION_NOTICE)

ErrorPrinted == \E i \in 1..Len(out) : IsErrorNotice(out[i])

\* C1: when the run has failed the report file holds what it held before the
\* run, the error notice is printed and the completion notice is not.
InvC1 ==
    pc = "failed" =>
        /\ file = file0
        /\ ErrorPrinted
        /\ ~CompletionPrinted

\* C5 as stated: a run whose probe failed ends with the report written and the
\* completion notice printed.
InvC5Original ==
    (r_http.kind = "error" /\ pc \in {"done", "failed"}) =>
        /\ pc = "done"
        /\ file.content = Join(report, "\n")
        /\ CompletionPrinted
        /\ ~ErrorPrinted

ProbeFailed == r_http.kind = "error"

\* What holds in every state after the probe failed.
AfterProbeFailure ==
    ProbeFailed =>
        LET sec == Section(report, H_TRANSPORT)
        IN  /\ pc \in {"open", "write", "print", "done", "failed"}
            /\ Len(sec) = 2
            /\ sec[1] = "- [OK] Using HTTPS"
            /\ IsWarn(sec[2])
            /\ EndsWith(sec[2], r_http.e)
            /\ pc \in {"open", "write", "print"} => Len(out) = 1
            /\ pc = "failed" =>
                  /\ ~CompletionPrinted
                  /\ \E e \in OpenErrors \cup WriteErrors : LastOut = "Error during scan: " \o e
            /\ Written => file = [exists |-> TRUE, content |-> Join(report, "\n")]
            /\ pc = "done" => (CompletionPrinted /\ ~ErrorPrinted)

\* The step at which the probe fails appends one line and touches neither the
\* lines assembled before, the file nor the console, and moves on to the write
\* step; the steps after it leave the report alone.
ProbeFailureStep ==
    /\ (pc = "probe" /\ r_http'.kind = "error") =>
          /\ Len(report') = Len(report) + 1
          /\ SubSeq(report', 1, Len(report)) = report
          /\ pc' = "open"
          /\ file' = file
          /\ out' = out
    /\ (ProbeFailed /\ pc \in {"open", "write", "print"}) => report' = report

\* C5 (amended): a failed probe is confined to the transport-security check:
\* one WARN finding ending in the error description is appended after the
\* Using HTTPS line, the earlier lines are kept, the scan goes on to the write
\* step; the report is then written and the completion notice printed unless
\* opening or writing the report file itself raises, which is the only way
\* such a run ends with the error notice.
ThmC5 == [](AfterProbeFailure) /\ [][ProbeFailureStep]_vars

\* A finished run whose probe failed and whose report was written.
WitC5 ==
    /\ pc = "done"
    /\ ProbeFailed
    /\ file.content = Join(report, "\n")
    /\ Contains(file.content, "[WARN] HTTP check failed")

Rank ==
    ("start" :> 0) @@ ("fetch" :> 1) @@ ("headers" :> 2) @@ ("info" :> 3) @@
    ("cookies" :> 4) @@ ("transport" :> 5) @@ ("probe" :> 6) @@ ("open" :> 7) @@
    ("write" :> 8) @@ ("print" :> 9) @@ ("done" :> 10) @@ ("failed" :> 10)

\* The four section headers are present, in the order of the report.
SectionsInOrder ==
    /\ \A h \in SectionHeaders : HasLine(report, h)
    /\ IndexOf(report, H_HEADERS) = Len(ReportPreamble(url)) + 1
    /\ IndexOf(report, H_HEADERS) < IndexOf(report, H_INFO)
    /\ IndexOf(report, H_INFO) < IndexOf(report, H_COOKIES)
    /\ IndexOf(report, H_COOKIES) < IndexOf(report, H_TRANSPORT)

\* What the order of the steps implies in every state.
StepOrderState ==
    /\ Len(net) <= 2
    /\ report # << >> => (response.ok /\ Len(net) >= 1)
    /\ Len(net) >= 1 =>
          (net[1].url = url /\ net[1].allow_redirects /\ Rank[pc] > Rank["fetch"])
    /\ Len(net) = 2 =>
          /\ response.ok
          /\ ~net[2].allow_redirects
          /\ SectionsInOrder
          /\ Len(Section(report, H_HEADERS)) = 6
          /\ Rank[pc] > Rank["probe"]
          /\ r_http.kind # "none"
    /\ r_http.kind # "none" => Len(net) = 2
    /\ file # file0 =>
          /\ Rank[pc] > Rank["open"]
          /\ SectionsInOrder
          /\ HttpsTarget => r_http.kind # "none"
    /\ Written => file = [exists |-> TRUE, content |-> Join(report, "\n")]
    /\ Rank[pc] < Rank["done"] => Len(out) <= 1
    /\ pc \in {"done", "failed"} =>
          /\ Len(out) = 2
          /\ out[1] = "Scanning " \o url \o "..."
          /\ IsErrorNotice(out[2]) <=> (pc = "failed")
          /\ (out[2] = COMPLETION_NOTICE) <=> (pc = "done")

\* Every step moves the run forward, so no step happens twice; requests are
\* issued only by the fetch and the probe, and the file changes only in the
\* write step (its open and its write).
StepOrderAction ==
    /\ Rank[pc'] > Rank[pc]
    /\ Len(net') # Len(net) => (pc \in {"fetch", "probe"} /\ Len(net') = Len(net) + 1)
    /\ file' # file => pc \in {"open", "write"}
    /\ pc' = "done" => pc = "print"
    /\ pc' = "print" => (pc = "write" /\ file'.content = Join(report, "\n"))

\* C10: the steps of a run occur in one fixed order: the primary fetch before
\* every check, the probe at most once and after the first three sections,
\* the write at most once and after the probe has finished and the four
\* sections are assembled in order, and exactly one final notice, the
\* completion notice only after the write.
ThmC10 == [](StepOrderState) /\ [][StepOrderAction]_vars

\* A finished run of an https target: two requests, report written, completion
\* notice printed.
WitC10 ==
    /\ pc = "done"
    /\ Len(net) = 2
    /\ r_http.kind = "response"
    /\ file.content = Join(report, "\n")
    /\ out[2] = COMPLETION_NOTICE

====
